---- MODULE Spec2Model ----
(***************************************************************************)
(* A model of cfn-bootstrap/dl_cfn_setup_v2.py: the bootstrap rendezvous   *)
(* of a deep-learning cluster.  One master node waits for the launch       *)
(* notices of the two autoscaling groups on the master queue, resolves the *)
(* group members to private addresses, and broadcasts the membership on    *)
(* the worker queue; every worker node polls the worker queue until it     *)
(* sees the broadcast.                                                     *)
(*                                                                         *)
(* Every node reads its own wall clock (now[p]); a blocking call advances  *)
(* it by the duration of the call, a sleep by the length of the sleep.     *)
(* One action is one iteration of a polling loop of the source, together   *)
(* with everything the caller does when the loop returns.                  *)
(***************************************************************************)
EXTENDS Integers, Sequences, FiniteSets, Bags, TLC

(***************************************************************************)
(* Program constants.                                                      *)
(***************************************************************************)
SLEEP_INTERVAL_IN_SECS == 30

\* number_messages of both receive_message calls.
NUMBER_MESSAGES == 10

\* visibility_timeout of the master queue's receive_message.
MASTER_VISIBILITY_TIMEOUT == 60

\* visibility_timeout of the worker queue's receive_message.
WORKER_VISIBILITY_TIMEOUT == 0

(***************************************************************************)
(* Bounds of the model.                                                    *)
(***************************************************************************)
\* Blocking calls of one episode that take longer than a sleep interval.
MaxSlow == 1

\* Iterations of the resolver's loop that are explored.
MaxPolls == 3

\* Instances one page of the directory's answer holds.
PageSize == 2

\* Messages other than the broadcast that appear on the worker queue.
MaxStray == 1

(***************************************************************************)
(* The nodes.                                                              *)
(***************************************************************************)
Master == "master"

Workers == {"worker1", "worker2"}

Procs == {Master} \cup Workers

\* AWS_DL_NODE_TYPE of each node.
AWS_DL_NODE_TYPE(p) == IF p = Master THEN "Master" ELSE "Worker"

\* str.lower() on the words the model uses.
Lower(s) ==
  CASE s = "Master" -> "master"
    [] s = "Worker" -> "worker"
    [] s = "ASG" -> "asg"
    [] OTHER -> s

\* AWS_DL_WAITCONDITION_TIMEOUT - AWS_DL_MASTERLAUNCH_TIMEOUT, the same on
\* every node of a stack.
SetupTimeouts == {45, 75}

\* How long a blocking call (metadata, queue, directory) may take: no time,
\* or longer than a sleep interval.
SlowCall == SLEEP_INTERVAL_IN_SECS + 10

CallDurations(n) == IF n < MaxSlow THEN {0, SlowCall} ELSE {0}

(***************************************************************************)
(* Group names are sequences of words; Python's                            *)
(* 'master' in name.lower() is a search for the word.                      *)
(***************************************************************************)
MasterASG1 == <<"stack", "Master", "ASG", "1">>

MasterASG2 == <<"stack", "Master", "ASG", "2">>

WorkerASG1 == <<"stack", "Worker", "ASG", "1">>

is_master_name(name) == \E k \in DOMAIN name : Lower(name[k]) = "master"

(***************************************************************************)
(* Addresses are the digit strings that follow "10.0.0."; Python compares  *)
(* strings character by character, so "10.0.0.10" < "10.0.0.2".            *)
(***************************************************************************)
InstanceIds == {"i-m1", "i-m2", "i-w1", "i-w2"}

private_ip_address(i) ==
  CASE i = "i-m1" -> <<2>>
    [] i = "i-m2" -> <<3>>
    [] i = "i-w1" -> <<1, 0>>
    [] i = "i-w2" -> <<1>>

\* The autoscaling group each instance is launched in.
GroupOf(i) == IF i \in {"i-m1", "i-m2"} THEN MasterASG1 ELSE WorkerASG1

\* The instances the fleet manager may launch: one master with two workers,
\* one master alone, two masters.
Clusters == {{"i-m1", "i-w1", "i-w2"}, {"i-m1"}, {"i-m1", "i-m2"}}

\* str < str of Python on the digit strings.
RECURSIVE StrLess(_, _)
StrLess(a, b) ==
  IF b = <<>> THEN FALSE
  ELSE IF a = <<>> THEN TRUE
  ELSE IF Head(a) # Head(b) THEN Head(a) < Head(b)
  ELSE StrLess(Tail(a), Tail(b))

(***************************************************************************)
(* Message bodies and json.                                                *)
(***************************************************************************)
\* json.dumps of a dict.
json_dumps(content) == [json |-> "object", value |-> content]

\* json.loads: a ValueError for text that is not JSON, None for null, the
\* value otherwise.
json_loads(body) ==
  CASE body.json = "invalid" -> [type |-> "ValueError"]
    [] body.json = "null" -> [type |-> "NoneType"]
    [] body.json = "number" -> [type |-> "int", value |-> body.value]
    [] body.json = "object" -> [type |-> "dict", value |-> body.value]

\* content[key]: "TypeError" for a value that is no dict, "KeyError" for a
\* missing key.
GetItemError(content, key) ==
  IF content.type # "dict" THEN "TypeError"
  ELSE IF key \notin DOMAIN content.value THEN "KeyError"
  ELSE "none"

GetItem(content, key) == content.value[key]

\* The launch notice of a group: launched is the number of instances the
\* fleet manager launched in it.
LaunchNotice(asg, status, launched, desired) ==
  json_dumps([event |-> "asg-setup", status |-> status, asg |-> asg,
              launched |-> launched, desired |-> desired])

\* The number of instances launched in a group.
LaunchedIn(up, asg) == Cardinality({i \in up : GroupOf(i) = asg})

\* The success notice of a group.
Success(up, asg) ==
  LaunchNotice(asg, "success", LaunchedIn(up, asg), LaunchedIn(up, asg))

\* A second report on the worker group, made while one more instance was
\* still desired.
SuccessAgain(up) ==
  LaunchNotice(WorkerASG1, "success", LaunchedIn(up, WorkerASG1),
               LaunchedIn(up, WorkerASG1) + 1)

\* What the fleet manager puts on the master queue in one episode, when it
\* launched the instances in `up`: the two notices; a notice delivered
\* twice and reported again; a third group; a failure before the success;
\* payloads that are no notice.
NoticePlans(up) ==
  { <<Success(up, WorkerASG1), Success(up, WorkerASG1), SuccessAgain(up)>>,
    <<Success(up, WorkerASG1), SuccessAgain(up), Success(up, MasterASG1)>>,
    <<Success(up, MasterASG1), Success(up, MasterASG2), Success(up, WorkerASG1)>>,
    <<LaunchNotice(WorkerASG1, "failure", 0, 2), Success(up, MasterASG1)>>,
    <<[json |-> "number", value |-> 7],
      json_dumps([event |-> "asg-setup", asg |-> WorkerASG1]),
      Success(up, MasterASG1)>>,
    <<[json |-> "invalid"], [json |-> "null"], Success(up, MasterASG1)>> }

\* One episode: the instances launched, what is reported of them, and the
\* instances that are not healthy.  The plans that are more than the two
\* notices, and an unhealthy worker, are tried on the full cluster.
FullCluster == {"i-m1", "i-w1", "i-w2"}

TwoNotices(up) == <<Success(up, MasterASG1), Success(up, WorkerASG1)>>

Scenarios ==
  { <<FullCluster, plan, {}>> : plan \in NoticePlans(FullCluster) } \cup
  { <<up, TwoNotices(up), {}>> : up \in Clusters } \cup
  { <<FullCluster, TwoNotices(FullCluster), {"i-w2"}>> }

RECURSIVE SeqToBag(_)
SeqToBag(seq) ==
  IF seq = <<>> THEN EmptyBag
  ELSE SetToBag({Head(seq)}) (+) SeqToBag(Tail(seq))

\* A queue entry: the body and the reader's clock time from which the
\* message is visible.
Entry(body) == [body |-> body, visibleAt |-> 0]

OneOf(e) == SetToBag({e})

Visible(queue, t) == {e \in BagToSet(queue) : e.visibleAt <= t}

\* The batches a receive_message may return: any messages visible now, in any
\* order, at most `n` of them.
RECURSIVE Batches(_, _, _)
Batches(queue, t, n) ==
  {<<>>} \cup
  IF n = 0 THEN {}
  ELSE UNION { {<<e>> \o s : s \in Batches(queue (-) OneOf(e), t, n - 1)} :
               e \in Visible(queue, t) }

\* A received message is hidden for visibility_timeout seconds; with a
\* timeout of 0 it is never hidden.
RECURSIVE Hide(_, _, _, _)
Hide(queue, batch, visibility_timeout, t) ==
  IF batch = <<>> \/ visibility_timeout = 0 THEN queue
  ELSE Hide((queue (-) OneOf(Head(batch)))
              (+) OneOf([Head(batch) EXCEPT !.visibleAt = t + visibility_timeout]),
            Tail(batch), visibility_timeout, t)

\* receive_message: the queue after `batch` was received at time t.
receive_message(queue, batch, visibility_timeout, t) ==
  Hide(queue, batch, visibility_timeout, t)

\* The entry of the queue that a message of the batch is after the receive.
Received(e, visibility_timeout, t) ==
  IF visibility_timeout = 0 THEN e
  ELSE [e EXCEPT !.visibleAt = t + visibility_timeout]

delete_message(queue, e) == queue (-) OneOf(e)

(***************************************************************************)
(* The state.                                                              *)
(***************************************************************************)
VARIABLES
  pc,                  \* where each node's main() is
  now,                 \* time.time() of each node
  start_time,          \* start_time of the polling function a node is in
  next_execution_ts,   \* next_execution_ts of that function
  timeout,             \* the budget handed to that function
  result,              \* (master_instance_ip, worker_instance_ips) of main()
  slow,                \* slow calls so far
  to_send,             \* launch notices the fleet manager has still to send
  stray,               \* other messages put on the worker queue so far
  master_queue,        \* AWS_DL_MASTER_QUEUE
  worker_queue,        \* AWS_DL_WORKER_QUEUE
  directory,           \* lifecycle state of each instance
  unhealthy,           \* instances whose health_status is not 'Healthy'
  asg_success_message, \* the ledger of wait_until_asg_success
  master_instance_ids,
  worker_instance_ids,
  pending_instance_ids,
  next_token,
  master_instances,
  worker_instances,
  phase_log,           \* history: the phases each node went through
  seen,                \* history: first success notice and deliveries per group
  observed_running,    \* history: instances a directory page showed running
  broadcasts           \* history: who sent which worker-setup message

vars ==
  <<pc, now, start_time, next_execution_ts, timeout, result, slow, to_send, stray,
    master_queue, worker_queue, directory, unhealthy, asg_success_message,
    master_instance_ids, worker_instance_ids, pending_instance_ids, next_token,
    master_instances, worker_instances, phase_log, seen, observed_running,
    broadcasts>>

\* The empty dict.
EmptyDict == [k \in {} |-> 0]

\* d[key] = value of Python.
SetItem(d, key, value) ==
  [k \in DOMAIN d \cup {key} |-> IF k = key THEN value ELSE d[k]]

\* None, for a result and for a pagination token.
None == <<>>

Init ==
  /\ pc = [p \in Procs |-> "gate"]
  /\ now = [p \in Procs |-> 0]
  /\ start_time = [p \in Procs |-> 0]
  /\ next_execution_ts = [p \in Procs |-> 0]
  /\ \E t \in SetupTimeouts : timeout = [p \in Procs |-> t]
  /\ result = [p \in Procs |-> None]
  /\ slow = 0
  /\ stray = 0
  /\ master_queue = EmptyBag
  /\ worker_queue = EmptyBag
  /\ \E sc \in Scenarios :
       /\ directory = [i \in InstanceIds |->
                         IF i \in sc[1] THEN "pending" ELSE "absent"]
       /\ to_send = SeqToBag(sc[2])
       /\ unhealthy = sc[3]
  /\ asg_success_message = EmptyDict
  /\ master_instance_ids = <<>>
  /\ worker_instance_ids = <<>>
  /\ pending_instance_ids = <<>>
  /\ next_token = None
  /\ master_instances = EmptyDict
  /\ worker_instances = EmptyDict
  /\ phase_log = [p \in Procs |-> <<>>]
  /\ seen = EmptyDict
  /\ observed_running = {}
  /\ broadcasts = <<>>

(***************************************************************************)
(* What main() does with the outcome of a phase.                           *)
(***************************************************************************)
Log(p, event) == [phase_log EXCEPT ![p] = Append(@, event)]

\* time.sleep(next_execution_ts - time.time()) raises for a negative length.
SleepRaises(next, t) == next - t < 0

\* The deadline test of the role gate, the launch watcher and the broadcast
\* wait: next_execution_ts > start_time + timeout.
TimedOut(next, start, budget) == next > start + budget

\* A budget that grows by the time the phase took.
RemainingBudgetAdded(budget, start, t) == budget + (t - start)

\* setup_timeout - (time.time() - start_time)
RemainingBudget(budget, start, t) == budget - (t - start)

\* sys.exit(1), directly or from main()'s except Exception.
Exit1(p, t, event) ==
  /\ pc' = [pc EXCEPT ![p] = "exit1"]
  /\ now' = [now EXCEPT ![p] = t]
  /\ phase_log' = Log(p, event)
  /\ UNCHANGED <<start_time, next_execution_ts, timeout>>

\* A polling function sleeps until its next tick and goes round its loop.
SleepUntil(p, next) ==
  /\ now' = [now EXCEPT ![p] = next]
  /\ next_execution_ts' = [next_execution_ts EXCEPT ![p] = next]
  /\ UNCHANGED <<pc, start_time, timeout, phase_log>>

\* A polling function is entered at time t with the budget `budget`.
EnterPhase(p, phase, t, budget, events) ==
  /\ pc' = [pc EXCEPT ![p] = phase]
  /\ now' = [now EXCEPT ![p] = t]
  /\ start_time' = [start_time EXCEPT ![p] = t]
  /\ next_execution_ts' = [next_execution_ts EXCEPT ![p] = t]
  /\ timeout' = [timeout EXCEPT ![p] = budget]
  /\ phase_log' = [phase_log EXCEPT ![p] = @ \o events]

(***************************************************************************)
(* check_instance_role_availability, one iteration, and main() up to the   *)
(* call of the node's role.                                                *)
(***************************************************************************)
\* The phase main() enters after the role gate, whatever the gate returned.
PhaseAfterGate(p, gate_result) ==
  CASE Lower(AWS_DL_NODE_TYPE(p)) = "master" -> "watch"
    [] Lower(AWS_DL_NODE_TYPE(p)) = "worker" -> "wait"
    [] OTHER -> "exit1"

GatePoll(p) ==
  /\ pc[p] = "gate"
  /\ \E d \in CallDurations(slow), found \in BOOLEAN :
       LET t == now[p] + d
           next == next_execution_ts[p] + SLEEP_INTERVAL_IN_SECS
           gate_result == found
           returns == found \/ TimedOut(next, start_time[p], timeout[p])
           phase == PhaseAfterGate(p, gate_result)
           event == IF gate_result THEN "gate_true" ELSE "gate_false"
       IN  /\ slow' = IF d > 0 THEN slow + 1 ELSE slow
           /\ IF returns
              THEN IF phase = "exit1"
                   THEN Exit1(p, t, event)
                   ELSE EnterPhase(p, phase, t,
                                   RemainingBudget(timeout[p], start_time[p], t),
                                   <<event, phase>>)
              ELSE IF SleepRaises(next, t)
                   THEN Exit1(p, t, "error")
                   ELSE SleepUntil(p, next)
  /\ UNCHANGED <<result, to_send, stray, master_queue, worker_queue, directory,
                 unhealthy, asg_success_message, master_instance_ids,
                 worker_instance_ids, pending_instance_ids, next_token,
                 master_instances, worker_instances, seen, observed_running,
                 broadcasts>>

(***************************************************************************)
(* wait_until_asg_success.                                                 *)
(***************************************************************************)
\* The first exception lines 144-159 raise on a message: "ValueError",
\* "TypeError", "KeyError" or "none".
LaunchMessageError(body) ==
  LET content == json_loads(body)
  IN  IF content.type = "ValueError" THEN "ValueError"
      ELSE IF content.type = "NoneType" THEN "none"
      ELSE IF GetItemError(content, "event") # "none"
           THEN GetItemError(content, "event")
      ELSE IF GetItem(content, "event") # "asg-setup" THEN "none"
      ELSE IF GetItemError(content, "status") # "none"
           THEN GetItemError(content, "status")
      ELSE IF GetItem(content, "status") # "success" THEN "none"
      ELSE GetItemError(content, "asg")

\* The test of line 145, for a message that raises nothing.
IsSuccessNotice(body) ==
  LET content == json_loads(body)
  IN  /\ content.type = "dict"
      /\ GetItem(content, "event") = "asg-setup"
      /\ GetItem(content, "status") = "success"

\* A merge that records nothing.
MergeNoticeDropped(ledger, content) == ledger

\* A merge that keeps the last notice of a group.
MergeNoticeLastWins(ledger, content) ==
  SetItem(ledger, GetItem(content, "asg"), content.value)

\* Lines 148-157: a notice of a group not in the ledger is recorded, a
\* duplicate is only logged.
MergeNotice(ledger, content) ==
  IF GetItem(content, "asg") \notin DOMAIN ledger
  THEN SetItem(ledger, GetItem(content, "asg"), content.value)
  ELSE ledger

\* Whether line 159 is reached for a message, which deletes it.
DeletesMessage(body) == LaunchMessageError(body) = "none"

\* The for loop of lines 140-163 over a received batch: the ledger, the
\* queue, and whether a ValueError left the loop.
RECURSIVE ProcessLaunchBatch(_, _, _, _)
ProcessLaunchBatch(batch, ledger, queue, t) ==
  IF batch = <<>> THEN [ledger |-> ledger, queue |-> queue, raised |-> FALSE]
  ELSE LET e == Head(batch)
           err == LaunchMessageError(e.body)
       IN  IF err = "ValueError"
           THEN [ledger |-> ledger, queue |-> queue, raised |-> TRUE]
           ELSE IF err \in {"TypeError", "KeyError"}
           THEN ProcessLaunchBatch(Tail(batch), ledger, queue, t)
           ELSE ProcessLaunchBatch(
                  Tail(batch),
                  IF IsSuccessNotice(e.body)
                  THEN MergeNotice(ledger, json_loads(e.body))
                  ELSE ledger,
                  IF DeletesMessage(e.body)
                  THEN delete_message(queue,
                         Received(e, MASTER_VISIBILITY_TIMEOUT, t))
                  ELSE queue,
                  t)

\* len(asg_success_message) is 2
LedgerComplete(ledger) == Cardinality(DOMAIN ledger) = 2

\* Lines 364-371: the notices of the master group and of the worker group,
\* None for a role no group of the ledger has.
master_asg_message(ledger) ==
  IF \E k \in DOMAIN ledger : is_master_name(k)
  THEN ledger[CHOOSE k \in DOMAIN ledger : is_master_name(k)]
  ELSE None

worker_asg_message(ledger) ==
  IF \E k \in DOMAIN ledger : ~is_master_name(k)
  THEN ledger[CHOOSE k \in DOMAIN ledger : ~is_master_name(k)]
  ELSE None

\* History: the messages of a batch the loop got to, up to a ValueError.
RECURSIVE Processed(_)
Processed(batch) ==
  IF batch = <<>> THEN <<>>
  ELSE IF Head(batch).body.json = "invalid" THEN <<>>
  ELSE <<Head(batch).body>> \o Processed(Tail(batch))

\* History: whether a body is a success notice of group g.
SuccessFor(body, g) ==
  /\ body.json = "object"
  /\ {"event", "status", "asg"} \subseteq DOMAIN body.value
  /\ body.value.event = "asg-setup"
  /\ body.value.status = "success"
  /\ body.value.asg = g

\* History: per group, the first success notice delivered and how many were.
Seen(old, bodies) ==
  LET groups == DOMAIN old \cup
                {g \in {MasterASG1, MasterASG2, WorkerASG1} :
                   \E k \in DOMAIN bodies : SuccessFor(bodies[k], g)}
      hits(g) == {k \in DOMAIN bodies : SuccessFor(bodies[k], g)}
      first(g) == bodies[CHOOSE k \in hits(g) : \A j \in hits(g) : k <= j]
  IN  [g \in groups |->
         IF g \in DOMAIN old
         THEN [first |-> old[g].first,
               count |-> old[g].count + Cardinality(hits(g))]
         ELSE [first |-> first(g).value, count |-> Cardinality(hits(g))]]

WatcherPoll ==
  /\ pc[Master] = "watch"
  /\ \E d \in CallDurations(slow),
        batch \in Batches(master_queue, now[Master], NUMBER_MESSAGES) :
       LET p == Master
           t == now[p] + d
           received == receive_message(master_queue, batch,
                                       MASTER_VISIBILITY_TIMEOUT, t)
           r == ProcessLaunchBatch(batch, asg_success_message, received, t)
           next == next_execution_ts[p] + SLEEP_INTERVAL_IN_SECS
       IN  /\ slow' = IF d > 0 THEN slow + 1 ELSE slow
           /\ master_queue' = r.queue
           /\ asg_success_message' = r.ledger
           /\ seen' = Seen(seen, Processed(batch))
           /\ IF r.raised THEN Exit1(p, t, "error")
              ELSE IF LedgerComplete(r.ledger)
              THEN IF master_asg_message(r.ledger) = None
                      \/ worker_asg_message(r.ledger) = None
                   THEN Exit1(p, t, "error")
                   ELSE EnterPhase(p, "resolve_start", t,
                          RemainingBudget(timeout[p], start_time[p], t),
                          <<"watch_ok", "resolve">>)
              ELSE IF TimedOut(next, start_time[p], timeout[p])
              THEN Exit1(p, t, "watch_timeout")
              ELSE IF SleepRaises(next, t) THEN Exit1(p, t, "error")
              ELSE SleepUntil(p, next)
  /\ UNCHANGED <<result, to_send, stray, worker_queue, directory, unhealthy,
                 master_instance_ids, worker_instance_ids,
                 pending_instance_ids, next_token, master_instances,
                 worker_instances, observed_running, broadcasts>>

\* The fleet manager's lambda reports on the master queue, possibly more
\* than once, while the master watches it.
LambdaSend ==
  /\ pc[Master] = "watch"
  /\ \E body \in BagToSet(to_send) :
       /\ master_queue' = master_queue (+) OneOf(Entry(body))
       /\ to_send' = to_send (-) OneOf(body)
  /\ UNCHANGED <<pc, now, start_time, next_execution_ts, timeout, result, slow,
                 stray, worker_queue, directory, unhealthy, asg_success_message,
                 master_instance_ids, worker_instance_ids, pending_instance_ids,
                 next_token, master_instances, worker_instances, phase_log,
                 seen, observed_running, broadcasts>>

(***************************************************************************)
(* wait_until_instances_active.                                            *)
(***************************************************************************)
\* The order in which the directory lists instances.
InstanceOrder == <<"i-m1", "i-m2", "i-w1", "i-w2">>

\* The instances of a set, in the directory's order.
Listed(set) == SelectSeq(InstanceOrder, LAMBDA i : i \in set)

Contains(seq, x) == \E k \in DOMAIN seq : seq[k] = x

\* list.remove(x), for an x the list holds.
Remove(seq, x) == SelectSeq(seq, LAMBDA y : y # x)

\* Lines 250-260: the healthy instances of the named groups, split by the
\* group's name.
HealthyIn(names, masters) ==
  Listed({i \in InstanceIds :
            /\ directory[i] # "absent"
            /\ i \notin unhealthy
            /\ GroupOf(i) \in names
            /\ is_master_name(GroupOf(i)) = masters})

ResolverStart ==
  /\ pc[Master] = "resolve_start"
  /\ LET names == {master_asg_message(asg_success_message).asg,
                   worker_asg_message(asg_success_message).asg}
     IN  /\ master_instance_ids' = HealthyIn(names, TRUE)
         /\ worker_instance_ids' = HealthyIn(names, FALSE)
         /\ pending_instance_ids' =
              HealthyIn(names, TRUE) \o HealthyIn(names, FALSE)
  /\ next_token' = None
  /\ pc' = [pc EXCEPT ![Master] = "resolve"]
  /\ UNCHANGED <<now, start_time, next_execution_ts, timeout, result, slow,
                 to_send, stray, master_queue, worker_queue, directory,
                 unhealthy, asg_success_message, master_instances,
                 worker_instances, phase_log, seen, observed_running,
                 broadcasts>>

\* get_all_reservations: the ids a call asks about.  A call with a token
\* goes on with the listing the token stands for; an empty id list asks
\* about every instance.
Requested(pending, token) ==
  IF token # None THEN token
  ELSE IF pending = <<>> THEN Listed({i \in InstanceIds : directory[i] # "absent"})
  ELSE pending

FirstPage(request) ==
  SubSeq(request, 1, IF Len(request) < PageSize THEN Len(request) ELSE PageSize)

RestPages(request) ==
  IF Len(request) <= PageSize THEN None
  ELSE SubSeq(request, PageSize + 1, Len(request))

\* A resolver that takes the address of an instance that is still pending.
IsRunningOrPending(state) == state \in {"running", "pending"}

\* The test of line 280.
IsRunning(state) == state = "running"

\* Lines 278-297 over one page: the pending list and the two address maps,
\* and whether list.remove raised.
RECURSIVE ProcessPage(_, _, _, _)
ProcessPage(page, pending, masters, workers) ==
  IF page = <<>>
  THEN [pending |-> pending, masters |-> masters, workers |-> workers,
        raised |-> FALSE]
  ELSE LET i == Head(page)
       IN  IF IsRunning(directory[i])
           THEN IF ~Contains(pending, i)
                THEN [pending |-> pending, masters |-> masters,
                      workers |-> workers, raised |-> TRUE]
                ELSE ProcessPage(
                       Tail(page), Remove(pending, i),
                       IF Contains(master_instance_ids, i)
                       THEN SetItem(masters, i, private_ip_address(i))
                       ELSE masters,
                       IF ~Contains(master_instance_ids, i)
                          /\ Contains(worker_instance_ids, i)
                       THEN SetItem(workers, i, private_ip_address(i))
                       ELSE workers)
           ELSE ProcessPage(Tail(page), pending, masters, workers)

\* History: the instances of a page the loop saw running.
RunningIn(page) == {page[k] : k \in {j \in DOMAIN page : directory[page[j]] = "running"}}

\* The test of line 309, which ends the loop with 'Reached timeout'.
ResolverGivesUp(next, start, budget) == next < start + budget

\* The function returns to setup_worker_metadata.
ResolverReturns(p, t, masters, workers, event) ==
  /\ pc' = [pc EXCEPT ![p] = "resolved"]
  /\ now' = [now EXCEPT ![p] = t]
  /\ master_instances' = masters
  /\ worker_instances' = workers
  /\ phase_log' = Log(p, event)
  /\ UNCHANGED <<start_time, timeout>>

ResolverPoll ==
  /\ pc[Master] = "resolve"
  /\ (next_execution_ts[Master] - start_time[Master])
       \div SLEEP_INTERVAL_IN_SECS < MaxPolls
  /\ \E d \in CallDurations(slow) :
       LET p == Master
           t == now[p] + d
           request == Requested(pending_instance_ids, next_token)
           page == FirstPage(request)
           r == ProcessPage(page, pending_instance_ids, master_instances,
                            worker_instances)
           next == next_execution_ts[p] + SLEEP_INTERVAL_IN_SECS
       IN  /\ slow' = IF d > 0 THEN slow + 1 ELSE slow
           /\ observed_running' = observed_running \cup RunningIn(page)
           /\ next_execution_ts' = [next_execution_ts EXCEPT ![p] = next]
           /\ IF r.raised
              THEN /\ ResolverReturns(p, t, EmptyDict, EmptyDict, "resolve_error")
                   /\ UNCHANGED <<pending_instance_ids, next_token>>
              ELSE /\ pending_instance_ids' = r.pending
                   /\ next_token' = RestPages(request)
                   /\ IF r.pending = <<>>
                      THEN ResolverReturns(p, t, r.masters, r.workers, "resolved")
                      ELSE IF RestPages(request) # None
                      THEN /\ now' = [now EXCEPT ![p] = t]
                           /\ master_instances' = r.masters
                           /\ worker_instances' = r.workers
                           /\ UNCHANGED <<pc, start_time, timeout, phase_log>>
                      ELSE IF ResolverGivesUp(next, start_time[p], timeout[p])
                      THEN ResolverReturns(p, t, r.masters, r.workers,
                                           "resolve_timeout")
                      ELSE IF SleepRaises(next, t)
                      THEN ResolverReturns(p, t, EmptyDict, EmptyDict,
                                           "resolve_error")
                      ELSE /\ now' = [now EXCEPT ![p] = next]
                           /\ master_instances' = r.masters
                           /\ worker_instances' = r.workers
                           /\ UNCHANGED <<pc, start_time, timeout, phase_log>>
  /\ UNCHANGED <<result, to_send, stray, master_queue, worker_queue, directory,
                 unhealthy, asg_success_message, master_instance_ids,
                 worker_instance_ids, seen, broadcasts>>

\* An instance comes up while the master resolves the membership.
InstanceRuns ==
  /\ pc[Master] = "resolve"
  /\ \E i \in InstanceIds :
       /\ directory[i] = "pending"
       /\ directory' = [directory EXCEPT ![i] = "running"]
  /\ UNCHANGED <<pc, now, start_time, next_execution_ts, timeout, result, slow,
                 to_send, stray, master_queue, worker_queue, unhealthy,
                 asg_success_message, master_instance_ids, worker_instance_ids,
                 pending_instance_ids, next_token, master_instances,
                 worker_instances, phase_log, seen, observed_running,
                 broadcasts>>

(***************************************************************************)
(* setup_worker_metadata after the resolver, and the broadcast.            *)
(***************************************************************************)
\* dict.values(), in some order.
RECURSIVE Values(_)
Values(d) ==
  IF DOMAIN d = {} THEN <<>>
  ELSE LET k == CHOOSE x \in DOMAIN d : TRUE
       IN  <<d[k]>> \o Values([x \in DOMAIN d \ {k} |-> d[x]])

\* sorted(list) of strings: an insertion sort by str <.
RECURSIVE Insert(_, _)
Insert(x, seq) ==
  IF seq = <<>> THEN <<x>>
  ELSE IF StrLess(Head(seq), x) THEN <<Head(seq)>> \o Insert(x, Tail(seq))
  ELSE <<x>> \o seq

RECURSIVE sorted(_)
sorted(seq) == IF seq = <<>> THEN <<>> ELSE Insert(Head(seq), sorted(Tail(seq)))

\* A test that lets more than one master through.
SomeMaster(masters) == Cardinality(DOMAIN masters) >= 1

\* Line 381: the resolver's answer is accepted.
SingleMaster(masters) == Cardinality(DOMAIN masters) = 1

\* A membership whose worker list is left in the order it was built in.
worker_instance_ips_unsorted(masters, workers) ==
  <<Values(masters)[1]>> \o Values(workers)

\* A membership that is empty when no worker was resolved.
worker_instance_ips_no_self(masters, workers) ==
  sorted(IF Cardinality(DOMAIN workers) = 0
         THEN <<>>
         ELSE <<Values(masters)[1]>> \o Values(workers))

\* Lines 384-398: worker_instance_ips.
worker_instance_ips(masters, workers) ==
  LET master_instance_ip == Values(masters)[1]
  IN  sorted(IF Cardinality(DOMAIN workers) = 0
             THEN <<master_instance_ip>>
             ELSE <<master_instance_ip>> \o Values(workers))

BuildMembership ==
  /\ pc[Master] = "resolved"
  /\ IF ~SingleMaster(master_instances)
     THEN /\ Exit1(Master, now[Master], "precondition")
          /\ UNCHANGED result
     ELSE /\ result' = [result EXCEPT ![Master] =
                          <<Values(master_instances)[1],
                            worker_instance_ips(master_instances,
                                                worker_instances)>>]
          /\ pc' = [pc EXCEPT ![Master] = "send"]
          /\ phase_log' = Log(Master, "membership")
          /\ UNCHANGED <<now, start_time, next_execution_ts, timeout>>
  /\ UNCHANGED <<slow, to_send, stray, master_queue, worker_queue, directory,
                 unhealthy, asg_success_message, master_instance_ids,
                 worker_instance_ids, pending_instance_ids, next_token,
                 master_instances, worker_instances, seen, observed_running,
                 broadcasts>>

\* The dict of lines 408-412.
worker_setup_message(master_instance_ip, ips) ==
  ("event" :> "worker-setup") @@ ("master-ip" :> master_instance_ip)
    @@ ("worker-ips" :> ips)

\* A master that sends the message twice.
send_worker_setup_msg_twice(queue, master_instance_ip, ips) ==
  queue (+) OneOf(Entry(json_dumps(worker_setup_message(master_instance_ip, ips))))
        (+) OneOf(Entry(json_dumps(worker_setup_message(master_instance_ip, ips))))

\* send_worker_setup_msg: the worker queue after the call.
send_worker_setup_msg(queue, master_instance_ip, ips) ==
  queue (+) OneOf(Entry(json_dumps(worker_setup_message(master_instance_ip, ips))))

\* main(), lines 489-491, on the master: the local files are written, the
\* broadcast is sent, the stack is signalled.
SendWorkerSetup ==
  /\ pc[Master] = "send"
  /\ worker_queue' =
       send_worker_setup_msg(worker_queue, result[Master][1], result[Master][2])
  /\ broadcasts' =
       Append(broadcasts,
              [by |-> Master,
               body |-> json_dumps(worker_setup_message(result[Master][1],
                                                        result[Master][2]))])
  /\ pc' = [pc EXCEPT ![Master] = "exit0"]
  /\ phase_log' = Log(Master, "broadcast")
  /\ UNCHANGED <<now, start_time, next_execution_ts, timeout, result, slow,
                 to_send, stray, master_queue, directory, unhealthy,
                 asg_success_message, master_instance_ids, worker_instance_ids,
                 pending_instance_ids, next_token, master_instances,
                 worker_instances, seen, observed_running>>

(***************************************************************************)
(* wait_for_worker_setup_message, one iteration, and main() on a worker.   *)
(***************************************************************************)
\* The first exception lines 202-208 raise on a message.
SetupMessageError(body) ==
  LET content == json_loads(body)
  IN  IF content.type = "ValueError" THEN "ValueError"
      ELSE IF content.type = "NoneType" THEN "none"
      ELSE IF GetItemError(content, "event") # "none"
           THEN GetItemError(content, "event")
      ELSE IF GetItem(content, "event") # "worker-setup" THEN "none"
      ELSE IF GetItemError(content, "master-ip") # "none"
           THEN GetItemError(content, "master-ip")
      ELSE GetItemError(content, "worker-ips")

\* A worker that passes over null only, whatever the event tag.
NotWorkerSetupAnyTag(body) == json_loads(body).type = "NoneType"

\* Line 203: the message is passed over.
NotWorkerSetup(body) ==
  LET content == json_loads(body)
  IN  content.type = "NoneType" \/ GetItem(content, "event") # "worker-setup"

\* The for loop of lines 198-212 over a received batch: "found" with the
\* pair of line 208, "none", or "ValueError".
RECURSIVE ScanSetupBatch(_)
ScanSetupBatch(batch) ==
  IF batch = <<>> THEN [outcome |-> "none", value |-> None]
  ELSE LET body == Head(batch).body
           err == SetupMessageError(body)
       IN  IF err = "ValueError" THEN [outcome |-> "ValueError", value |-> None]
           ELSE IF err \in {"TypeError", "KeyError"}
           THEN ScanSetupBatch(Tail(batch))
           ELSE IF NotWorkerSetup(body) THEN ScanSetupBatch(Tail(batch))
           ELSE [outcome |-> "found",
                 value |-> <<GetItem(json_loads(body), "master-ip"),
                             GetItem(json_loads(body), "worker-ips")>>]

\* A worker that receives with the visibility timeout of the master queue.
WorkerReceiveHiding(queue, batch, t) ==
  receive_message(queue, batch, MASTER_VISIBILITY_TIMEOUT, t)

\* What a worker's receive_message leaves of the worker queue.
WorkerReceive(queue, batch, t) ==
  receive_message(queue, batch, WORKER_VISIBILITY_TIMEOUT, t)

\* A main() that takes whatever the wait returned for a membership.
WorkerExitUnchecked(value) == "exit0"

\* Lines 494-498: main() exits with 1 on the None the wait returned (the
\* unpacking of line 494 raises TypeError) and goes on with a pair.
WorkerExit(value) == IF value = None THEN "exit1" ELSE "exit0"

WorkerPoll(p) ==
  /\ p \in Workers
  /\ pc[p] = "wait"
  /\ \E d \in CallDurations(slow),
        batch \in Batches(worker_queue, now[p], NUMBER_MESSAGES) :
       LET t == now[p] + d
           r == ScanSetupBatch(batch)
           next == next_execution_ts[p] + SLEEP_INTERVAL_IN_SECS
       IN  /\ slow' = IF d > 0 THEN slow + 1 ELSE slow
           /\ worker_queue' = WorkerReceive(worker_queue, batch, t)
           /\ IF r.outcome = "ValueError"
              THEN Exit1(p, t, "error") /\ UNCHANGED result
              ELSE IF r.outcome = "found"
              THEN /\ result' = [result EXCEPT ![p] = r.value]
                   /\ pc' = [pc EXCEPT ![p] = WorkerExit(r.value)]
                   /\ now' = [now EXCEPT ![p] = t]
                   /\ phase_log' = Log(p, "wait_ok")
                   /\ UNCHANGED <<start_time, next_execution_ts, timeout>>
              ELSE IF TimedOut(next, start_time[p], timeout[p])
              THEN /\ pc' = [pc EXCEPT ![p] = WorkerExit(None)]
                   /\ now' = [now EXCEPT ![p] = t]
                   /\ phase_log' = Log(p, "wait_timeout")
                   /\ UNCHANGED <<start_time, next_execution_ts, timeout, result>>
              ELSE IF SleepRaises(next, t)
              THEN Exit1(p, t, "error") /\ UNCHANGED result
              ELSE SleepUntil(p, next) /\ UNCHANGED result
  /\ UNCHANGED <<to_send, stray, master_queue, directory, unhealthy,
                 asg_success_message, master_instance_ids, worker_instance_ids,
                 pending_instance_ids, next_token, master_instances,
                 worker_instances, seen, observed_running, broadcasts>>

\* What else may lie on the worker queue: a message of another kind with
\* the fields of a broadcast, a payload that is no object, and one that is
\* no JSON.
StrayBodies ==
  { json_dumps(("event" :> "worker-teardown") @@ ("master-ip" :> <<9>>)
                 @@ ("worker-ips" :> <<>>)),
    [json |-> "number", value |-> 7],
    [json |-> "invalid"] }

StraySend ==
  /\ stray < MaxStray
  /\ \E body \in StrayBodies :
       worker_queue' = worker_queue (+) OneOf(Entry(body))
  /\ stray' = stray + 1
  /\ UNCHANGED <<pc, now, start_time, next_execution_ts, timeout, result, slow,
                 to_send, master_queue, directory, unhealthy,
                 asg_success_message, master_instance_ids, worker_instance_ids,
                 pending_instance_ids, next_token, master_instances,
                 worker_instances, phase_log, seen, observed_running,
                 broadcasts>>

(***************************************************************************)
(* The master node's episode.                                              *)
(***************************************************************************)
Next ==
  \/ GatePoll(Master)
  \/ WatcherPoll
  \/ LambdaSend
  \/ ResolverStart
  \/ ResolverPoll
  \/ InstanceRuns
  \/ BuildMembership
  \/ SendWorkerSetup

Spec == Init /\ [][Next]_vars

(***************************************************************************)
(* The worker nodes' episode.  It starts when the master has built the     *)
(* membership of a cluster with one master, all of whose instances run,    *)
(* and is about to send it.                                                *)
(***************************************************************************)
InitRendezvous ==
  /\ pc = [p \in Procs |-> IF p = Master THEN "send" ELSE "gate"]
  /\ now = [p \in Procs |-> 0]
  /\ start_time = [p \in Procs |-> 0]
  /\ next_execution_ts = [p \in Procs |-> 0]
  /\ \E t \in SetupTimeouts : timeout = [p \in Procs |-> t]
  /\ slow = 0
  /\ stray = 0
  /\ to_send = EmptyBag
  /\ master_queue = EmptyBag
  /\ worker_queue = EmptyBag
  /\ unhealthy = {}
  /\ next_token = None
  /\ pending_instance_ids = <<>>
  /\ \E up \in {c \in Clusters : LaunchedIn(c, MasterASG1) = 1} :
       LET ledger == SetItem(SetItem(EmptyDict, MasterASG1,
                                     Success(up, MasterASG1).value),
                             WorkerASG1, Success(up, WorkerASG1).value)
           masters == [i \in {j \in up : GroupOf(j) = MasterASG1} |->
                         private_ip_address(i)]
           workers == [i \in {j \in up : GroupOf(j) = WorkerASG1} |->
                         private_ip_address(i)]
       IN  /\ directory = [i \in InstanceIds |->
                             IF i \in up THEN "running" ELSE "absent"]
           /\ asg_success_message = ledger
           /\ seen = [g \in DOMAIN ledger |-> [first |-> ledger[g], count |-> 1]]
           /\ master_instance_ids = Listed(DOMAIN masters)
           /\ worker_instance_ids = Listed(DOMAIN workers)
           /\ master_instances = masters
           /\ worker_instances = workers
           /\ observed_running = up
           /\ result = [p \in Procs |->
                          IF p = Master
                          THEN <<Values(masters)[1],
                                 worker_instance_ips(masters, workers)>>
                          ELSE None]
  /\ phase_log = [p \in Procs |->
                    IF p = Master
                    THEN <<"gate_true", "watch", "watch_ok", "resolve",
                           "resolved", "membership">>
                    ELSE <<>>]
  /\ broadcasts = <<>>

NextRendezvous ==
  \/ \E p \in Workers : GatePoll(p)
  \/ \E p \in Workers : WorkerPoll(p)
  \/ SendWorkerSetup
  \/ StraySend

SpecRendezvous == InitRendezvous /\ [][NextRendezvous]_vars

(***************************************************************************)
(* The claims.                                                             *)
(***************************************************************************)
InLog(p, event) == \E k \in DOMAIN phase_log[p] : phase_log[p][k] = event

Count(p, event) == Cardinality({k \in DOMAIN phase_log[p] : phase_log[p][k] = event})

\* One event is in the log before another.
LoggedBefore(p, a, b) ==
  \E i, j \in DOMAIN phase_log[p] :
    i < j /\ phase_log[p][i] = a /\ phase_log[p][j] = b

\* The resolver has returned to setup_worker_metadata.
ResolverReturned ==
  InLog(Master, "resolved") \/ InLog(Master, "resolve_timeout")
    \/ InLog(Master, "resolve_error")

\* The worker-setup messages on the worker queue.
IsWorkerSetup(body) ==
  /\ body.json = "object"
  /\ "event" \in DOMAIN body.value
  /\ body.value["event"] = "worker-setup"

BroadcastsOnQueue == {e \in BagToSet(worker_queue) : IsWorkerSetup(e.body)}

Range(seq) == {seq[k] : k \in DOMAIN seq}

AddressesOf(body) == {body.value["master-ip"]} \cup Range(body.value["worker-ips"])

\* C1: the broadcast is on the worker queue only after the ledger holds a
\* success notice of a master group and of a worker group and the resolver
\* has returned, in that order, and every address it carries is the address
\* of an instance that a directory page showed the resolver as running.
C1_BroadcastAfterResolution ==
  \A e \in BroadcastsOnQueue :
    /\ \E g \in DOMAIN asg_success_message :
         is_master_name(g) /\ asg_success_message[g].status = "success"
    /\ \E g \in DOMAIN asg_success_message :
         ~is_master_name(g) /\ asg_success_message[g].status = "success"
    /\ LoggedBefore(Master, "watch_ok", "broadcast")
    /\ \E ret \in {"resolved", "resolve_timeout"} :
         /\ LoggedBefore(Master, "watch_ok", ret)
         /\ LoggedBefore(Master, ret, "broadcast")
    /\ \A ip \in AddressesOf(e.body) :
         \E i \in observed_running :
           private_ip_address(i) = ip /\ directory[i] = "running"

\* C1's case: the broadcast of a master and two workers is on the queue.
C1_Witness ==
  /\ pc[Master] = "exit0"
  /\ \E e \in BroadcastsOnQueue : Cardinality(AddressesOf(e.body)) = 3

\* The pair a worker returns from a worker-setup message.
MembershipIn(body) == <<body.value["master-ip"], body.value["worker-ips"]>>

\* C2: whatever the workers do, in any interleaving, every message the
\* master sent is still on the worker queue and visible to a reader at any
\* time, so a read by one worker takes it from no other; and two workers
\* that have returned a membership have returned the same one, the content
\* of the broadcast.
C2_NonDestructiveBroadcast ==
  /\ \A k \in DOMAIN broadcasts :
       CopiesIn(Entry(broadcasts[k].body), worker_queue) >= 1
  /\ \A w \in Workers :
       result[w] # None =>
         \E k \in DOMAIN broadcasts : result[w] = MembershipIn(broadcasts[k].body)
  /\ \A w1, w2 \in Workers :
       result[w1] # None /\ result[w2] # None => result[w1] = result[w2]

\* C2's case: both workers have read the broadcast and returned it.
C2_Witness ==
  /\ pc[Master] = "exit0"
  /\ \A w \in Workers : pc[w] = "exit0" /\ result[w] # None

\* The first worker-setup message of a batch, 0 if it has none, and the
\* first payload before which the loop stops with a ValueError.
FirstIndex(batch, Test(_)) ==
  IF \E k \in DOMAIN batch : Test(batch[k].body)
  THEN CHOOSE k \in DOMAIN batch :
         Test(batch[k].body) /\ \A j \in 1..(k - 1) : ~Test(batch[j].body)
  ELSE 0

IsInvalidJson(body) == body.json = "invalid"

\* C3: a worker has a membership only if a message tagged worker-setup is on
\* the queue, and for every batch a receive may return the loop's answer is
\* the master-ip and worker-ips of the first message tagged worker-setup in
\* it, unchanged; messages with any other tag are passed over.
C3_OnlyWorkerSetup ==
  /\ \A w \in Workers :
       result[w] # None =>
         \E e \in BroadcastsOnQueue : result[w] = MembershipIn(e.body)
  /\ \A batch \in Batches(worker_queue, 0, NUMBER_MESSAGES) :
       LET first == FirstIndex(batch, IsWorkerSetup)
           bad == FirstIndex(batch, IsInvalidJson)
           r == ScanSetupBatch(batch)
       IN  IF first # 0 /\ (bad = 0 \/ first < bad)
           THEN r.outcome = "found" /\ r.value = MembershipIn(batch[first].body)
           ELSE r.outcome # "found"

\* C3's case: a worker has returned the broadcast while a message with
\* another tag, which carries the same fields, lies on the queue.
C3_Witness ==
  /\ \E w \in Workers : pc[w] = "exit0" /\ result[w] # None
  /\ \E e \in BagToSet(worker_queue) :
       /\ e.body.json = "object"
       /\ e.body.value["event"] = "worker-teardown"

\* The order of Python's sorted on a list of strings.
IsAscending(seq) ==
  \A i, j \in DOMAIN seq : i < j => ~StrLess(seq[j], seq[i])

Occurrences(seq, x) == Cardinality({k \in DOMAIN seq : seq[k] = x})

\* C4: the worker list of the membership the master has built is in
\* ascending order and holds exactly the master's address and the address
\* of every resolved worker; the master's address is in it.
C4_SortedWithMaster ==
  pc[Master] \in {"send", "exit0"} =>
    LET master_ip == result[Master][1]
        ips == result[Master][2]
        resolved == {worker_instances[i] : i \in DOMAIN worker_instances}
    IN  /\ \E i \in DOMAIN master_instances : master_instances[i] = master_ip
        /\ IsAscending(ips)
        /\ Len(ips) = 1 + Cardinality(DOMAIN worker_instances)
        /\ \A x \in resolved \cup {master_ip} :
             Occurrences(ips, x) =
               (IF x = master_ip THEN 1 ELSE 0)
               + Cardinality({i \in DOMAIN worker_instances :
                                worker_instances[i] = x})
        /\ Range(ips) = resolved \cup {master_ip}
        /\ master_ip \in Range(ips)

\* C4's case: a master and two workers, the master's address is the last
\* after sorting.
C4_Witness ==
  /\ pc[Master] = "send"
  /\ Len(result[Master][2]) = 3
  /\ result[Master][2][3] = result[Master][1]

\* C5: the worker queue never holds more than one message of the master,
\* sent by the master, and nothing but that message and the stray ones: no
\* worker has sent a message.
C5_SentOnceByMaster ==
  /\ Len(broadcasts) <= 1
  /\ \A k \in DOMAIN broadcasts : broadcasts[k].by = Master
  /\ Cardinality(BroadcastsOnQueue) <= 1
  /\ \A e \in BroadcastsOnQueue : CopiesIn(e, worker_queue) = 1
  /\ BagCardinality(worker_queue) =
       stray + (IF pc[Master] = "exit0" THEN 1 ELSE 0)

\* C5's case: the master has sent and a worker has returned the membership.
C5_Witness ==
  /\ pc[Master] = "exit0"
  /\ \E w \in Workers : pc[w] = "exit0" /\ result[w] # None
  /\ stray > 0

\* C6: the ledger is what the first success notice of each group made it:
\* it has an entry for exactly the groups a success notice was delivered
\* for, and the entry is the first notice delivered, however often and in
\* whatever batches notices of the group were delivered after it.
C6_FirstWriteWins ==
  /\ DOMAIN asg_success_message = DOMAIN seen
  /\ \A g \in DOMAIN seen : asg_success_message[g] = seen[g].first

\* C6's case: three success notices of the worker group were delivered, two
\* of them with the same content and one with another.
C6_Witness ==
  /\ WorkerASG1 \in DOMAIN seen
  /\ seen[WorkerASG1].count = 3
  /\ asg_success_message[WorkerASG1].desired = 3

\* C7: once the resolver has returned no master address or more than one,
\* the master is at the test of line 381 or has exited with 1; the resolver
\* was called once and nothing is on the worker queue.
C7_SingleMasterOrFail ==
  (ResolverReturned /\ ~(Cardinality(DOMAIN master_instances) = 1)) =>
    /\ pc[Master] \in {"resolved", "exit1"}
    /\ Count(Master, "resolve") = 1
    /\ worker_queue = EmptyBag
    /\ broadcasts = <<>>
    /\ result[Master] = None

\* C7's case: two masters were resolved and the master has exited with 1.
C7_Witness ==
  /\ pc[Master] = "exit1"
  /\ InLog(Master, "precondition")
  /\ Cardinality(DOMAIN master_instances) = 2

\* The launched count of the worker group's notice in the ledger.
WorkerLaunched == worker_asg_message(asg_success_message).launched

\* C8: when the worker group's notice reports 0 launched and the resolver
\* has returned one master address, the master builds the membership whose
\* worker list is the master address alone, and sends it: it does not exit
\* with 1.
C8_MasterAlone ==
  ( /\ ResolverReturned
    /\ WorkerLaunched = 0
    /\ Cardinality(DOMAIN master_instances) = 1
    /\ pc[Master] # "resolved" ) =>
    LET ip == master_instances[CHOOSE i \in DOMAIN master_instances : TRUE]
    IN  /\ pc[Master] \in {"send", "exit0"}
        /\ result[Master] = <<ip, <<ip>> >>
        /\ pc[Master] = "exit0" =>
             worker_queue =
               OneOf(Entry(json_dumps(worker_setup_message(ip, <<ip>>))))

\* C8's case: the master of a cluster without workers has sent the
\* broadcast.
C8_Witness ==
  /\ pc[Master] = "exit0"
  /\ ResolverReturned
  /\ WorkerLaunched = 0
  /\ BagCardinality(worker_queue) = 1

\* C9: the launch watcher reports Timeout at the budget boundary: when it
\* has reported Timeout the deadline start_time + timeout has been reached,
\* and after a sleep it polls again only if the deadline has not passed.
C9_TimeoutAtBoundary ==
  /\ InLog(Master, "watch_timeout") =>
       now[Master] >= start_time[Master] + timeout[Master]
  /\ (pc[Master] = "watch" /\ next_execution_ts[Master] > start_time[Master]) =>
       now[Master] <= start_time[Master] + timeout[Master]

\* C10: when the resolver has stopped on its budget with members pending,
\* the master is about to exit with 1 or has: it builds no membership and
\* nothing is sent to the worker queue.
C10_NoPartialBroadcast ==
  (InLog(Master, "resolve_timeout") /\ pending_instance_ids # <<>>) =>
    /\ pc[Master] \in {"resolved", "exit1"}
    /\ result[Master] = None
    /\ worker_queue = EmptyBag

\* C11: when the role gate has returned False the node exits with 1 and
\* starts none of the later phases.
C11_GateFalseIsFatal ==
  InLog(Master, "gate_false") =>
    /\ pc[Master] = "exit1"
    /\ ~InLog(Master, "watch")
    /\ ~InLog(Master, "resolve")
    /\ ~InLog(Master, "broadcast")

\* C12: a worker that has exited with 0 found a worker-setup message and
\* holds the membership of a broadcast the master sent; a worker whose wait
\* ran out of budget has exited with 1 and holds no membership.
C12_WorkerAllOrNothing ==
  \A p \in Workers :
    /\ pc[p] = "exit0" =>
         /\ InLog(p, "wait_ok")
         /\ \E k \in DOMAIN broadcasts : result[p] = MembershipIn(broadcasts[k].body)
    /\ InLog(p, "wait_timeout") => (pc[p] = "exit1" /\ result[p] = None)
    /\ pc[p] = "exit1" => result[p] = None

\* C12's case: a worker's wait ran out of budget and the worker has exited
\* with 1, with nothing on the queue for it to find.
C12_Witness ==
  \E p \in Workers :
    /\ InLog(p, "wait_timeout")
    /\ pc[p] = "exit1"
    /\ BroadcastsOnQueue = {}

\* C13: a worker blocks until it observes the broadcast: while its budget
\* is not exhausted it has not reported Timeout, so a broadcast that is on
\* the worker queue before the worker's deadline finds the worker still
\* waiting or already returned.
C13_BlocksUntilBroadcast ==
  \A p \in Workers :
    (BroadcastsOnQueue # {} /\ now[p] < start_time[p] + timeout[p]) =>
      ~InLog(p, "wait_timeout")

\* C14: the budget of a node never grows from one step to the next, so the
\* budget handed to a phase is at most the budget of the phase before it,
\* and a budget that is zero or less stays zero or less.
C14_BudgetNeverGrows ==
  [][\A p \in Procs :
       /\ timeout'[p] <= timeout[p]
       /\ timeout[p] <= 0 => timeout'[p] <= 0]_vars

\* C14's case: the master is in its third phase with a budget that the role
\* gate and the launch watcher have both shortened.
C14_Witness ==
  /\ pc[Master] = "resolve"
  /\ LoggedBefore(Master, "watch", "resolve")
  /\ now[Master] >= 2 * SLEEP_INTERVAL_IN_SECS
  /\ start_time[Master] = now[Master]
  /\ timeout[Master] < 45

\* A payload that is no JSON, is no object, or is a launch notice without
\* one of the fields the watcher reads.
Malformed(body) ==
  \/ body.json \in {"invalid", "null", "number"}
  \/ /\ body.json = "object"
     /\ ~({"event", "status", "asg"} \subseteq DOMAIN body.value)

\* C15: an iteration of the launch watcher, with calls that return at once,
\* over a queue that holds malformed messages only, leaves the ledger as it
\* was, deletes nothing, and ends in the next round of the loop or in the
\* watcher's Timeout: not in an uncaught error.
C15_MalformedNeverCrashes ==
  [][( /\ pc[Master] = "watch"
       /\ to_send' = to_send
       /\ slow' = slow
       /\ \A e \in BagToSet(master_queue) : Malformed(e.body) ) =>
     ( /\ asg_success_message' = asg_success_message
       /\ BagCardinality(master_queue') = BagCardinality(master_queue)
       /\ \/ pc'[Master] = "watch"
          \/ phase_log'[Master] = Append(phase_log[Master], "watch_timeout") )]_vars

\* The copies of a body on a queue, visible or hidden.
BodyCount(queue, body) ==
  BagCardinality([e \in {x \in BagToSet(queue) : x.body = body} |-> queue[e]])

\* A step deletes a message with this body from the master queue.
Deleted(body) == BodyCount(master_queue', body) < BodyCount(master_queue, body)

\* A well-formed success launch notice.
WellFormedSuccess(body) ==
  \E g \in {MasterASG1, MasterASG2, WorkerASG1} : SuccessFor(body, g)

\* A payload the watcher reads without an exception: null, or an object with
\* an event, with a status if it is a launch notice, and with a group if it
\* is a success notice.
ReadWithoutException(body) ==
  \/ body.json = "null"
  \/ /\ body.json = "object"
     /\ "event" \in DOMAIN body.value
     /\ body.value["event"] = "asg-setup" =>
          /\ "status" \in DOMAIN body.value
          /\ body.value["status"] = "success" => "asg" \in DOMAIN body.value

\* C16 as stated: a message the watcher deletes is a well-formed success
\* notice whose group is in the ledger when it is deleted.
C16_DeletesOnlyMergedSuccess ==
  [][\A e \in BagToSet(master_queue) :
       Deleted(e.body) =>
         /\ WellFormedSuccess(e.body)
         /\ e.body.value["asg"] \in DOMAIN asg_success_message']_vars

\* C16 as amended: a message the watcher deletes is one it read without an
\* exception, a success notice or not; if it is a success notice its group
\* is in the ledger when it is deleted.
C16_DeletesWhatItRead ==
  [][\A e \in BagToSet(master_queue) :
       Deleted(e.body) =>
         /\ ReadWithoutException(e.body)
         /\ WellFormedSuccess(e.body) =>
              e.body.value["asg"] \in DOMAIN asg_success_message']_vars

\* C16's case: a notice with the status 'failure' and a success notice were
\* both read and deleted, and only the success notice is in the ledger.
C16_Witness ==
  /\ pc[Master] = "watch"
  /\ to_send = EmptyBag
  /\ master_queue = EmptyBag
  /\ DOMAIN asg_success_message = {MasterASG1}
  /\ DOMAIN seen = {MasterASG1}

\* The ledger has no group of one of the two roles.
RoleMissing(ledger) ==
  master_asg_message(ledger) = None \/ worker_asg_message(ledger) = None

\* C17: two success notices of groups of the same role are no completion:
\* with such a ledger the watcher is still watching, or has given up on its
\* deadline, and the resolver has not been started.
C17_CompleteNeedsBothRoles ==
  (Cardinality(DOMAIN asg_success_message) = 2
     /\ RoleMissing(asg_success_message)) =>
    /\ pc[Master] = "watch" \/ InLog(Master, "watch_timeout")
    /\ ~InLog(Master, "resolve")

\* C18: a member seen pending is asked about again: the resolver has
\* returned with a member still unresolved only when its budget was used up.
C18_PendingIsRetried ==
  (InLog(Master, "resolve_timeout") /\ pending_instance_ids # <<>>) =>
    now[Master] >= start_time[Master] + timeout[Master]

\* C19: the resolver, given a budget, does not sleep and poll again after
\* its deadline: when it is about to ask the directory after a sleep, the
\* deadline has not passed.
C19_NoPollPastDeadline ==
  ( /\ pc[Master] = "resolve"
    /\ timeout[Master] > 0
    /\ next_token = None
    /\ next_execution_ts[Master] > start_time[Master] ) =>
    now[Master] <= start_time[Master] + timeout[Master]

\* C20: the budget handed to a phase is never negative.
C20_BudgetNeverNegative == \A p \in Procs : timeout[p] >= 0

\* C21: every broadcast the master has sent carries, besides the master's
\* own address, as many addresses as the worker group's notice reports
\* launched.
C21_AllLaunchedWorkers ==
  \A k \in DOMAIN broadcasts :
    Len(broadcasts[k].body.value["worker-ips"]) - 1 = WorkerLaunched

\* C22: the ledger never holds more than two groups, and once success
\* notices of two distinct groups have been received the watcher has
\* returned: it is not polling, and it has not given up on its deadline.
C22_TwoGroupsComplete ==
  /\ Cardinality(DOMAIN asg_success_message) <= 2
  /\ Cardinality(DOMAIN seen) >= 2 =>
       (pc[Master] # "watch" /\ ~InLog(Master, "watch_timeout"))

====
